---- MODULE Spec2Model ----
(***************************************************************************)
(* Model of the forecast build section of streamlit_app.py.                *)
(*                                                                         *)
(* The script is a straight-line program that Streamlit executes from top  *)
(* to bottom on every interaction.  Each group of statements is one        *)
(* action; pc names the next group.  Lists are sequences (index i of the   *)
(* source is position i+1; At gives the 0-based access).                   *)
(*                                                                         *)
(* Number representation (floats are modelled by exact fixed point):       *)
(*   uk_growth_fast            in halves      (slider step 0.5)            *)
(*   uk_growth_taper           in hundredths  (slider step 5.0, / 100)     *)
(*   conv_rate                 in twentieths  (slider step 0.05)           *)
(*   eal_quarterly_multiplier  in quarters    (slider step 0.25)           *)
(*   prices and revenues       in half pounds (MoneyDen per pound)         *)
(* On the widget values explored below every float the script computes is  *)
(* exactly representable and every \div is exact, so the fixed-point       *)
(* values are the script's values; round() is Python's ties-to-even.       *)
(***************************************************************************)
EXTENDS Integers, Sequences, FiniteSets, TLC

VARIABLES
    \* widget values (lines 21-47)
    start_uk, uk_growth_fast, uk_growth_taper,
    trials_q, conv_rate, mat_multiplier,
    dist_add_q, dist_start_q,
    eal_start_q, eal_start_learners, eal_quarterly_multiplier,
    school_price_y1, school_price_y2, school_price_y3,
    dist_price_y1, dist_price_y2,
    \* module globals written by the build section (lines 52-127)
    uk_counts, school_price_q, uk_rev,
    trial_schedule, mat_conv, mat_cum, mat_price_q, mat_rev,
    first_dist_idx, base_adds, dist_cum, dist_price_q, dist_rev,
    first_eal_idx, eal_learners, learners, eal_rev,
    forecast,
    \* control
    pc, failure, run, prev

inputs == << start_uk, uk_growth_fast, uk_growth_taper,
             trials_q, conv_rate, mat_multiplier,
             dist_add_q, dist_start_q,
             eal_start_q, eal_start_learners, eal_quarterly_multiplier,
             school_price_y1, school_price_y2, school_price_y3,
             dist_price_y1, dist_price_y2 >>

ukVars   == << uk_counts >>
revVars  == << school_price_q, uk_rev >>
matVars  == << trial_schedule, mat_conv, mat_cum, mat_price_q, mat_rev >>
distVars == << first_dist_idx, base_adds, dist_cum, dist_price_q, dist_rev >>
ealVars  == << first_eal_idx, eal_learners, learners, eal_rev >>

vars == << inputs, ukVars, revVars, matVars, distVars, ealVars,
           forecast, pc, failure, run, prev >>

\* ------------------------------------------------------------------------
\* Bounds and program constants
\* ------------------------------------------------------------------------
MaxRuns == 2

Horizon == 12
AnchorYear == 2025
AnchorQuarter == 3
eal_price_annual == 30
FastDen == 2
TaperDen == 100
ConvDen == 20
MultDen == 4
MoneyDen == 2

\* "no failure"
None == "None"

\* value of a name the script has not assigned yet (every list the script
\* builds is non-empty)
Unbound == << >>

\* ------------------------------------------------------------------------
\* Generic helpers
\* ------------------------------------------------------------------------
At(s, i) == s[i + 1]

Idx == 0 .. (Horizon - 1)

RECURSIVE Pow(_, _)
Pow(b, e) == IF e = 0 THEN 1 ELSE b * Pow(b, e - 1)

Min(x, y) == IF x <= y THEN x ELSE y

\* Python 3 round(): nearest integer, ties to the even neighbour.
\* The argument is the exact rational num/den with den > 0.
PyRound(num, den) ==
    LET q == num \div den
        r == num - q * den
    IN  IF 2 * r < den THEN q
        ELSE IF 2 * r > den THEN q + 1
        ELSE IF q % 2 = 0 THEN q ELSE q + 1

RECURSIVE SumTo(_, _)
SumTo(s, n) == IF n = 0 THEN 0 ELSE SumTo(s, n - 1) + s[n]

\* pd.Series(s).cumsum()
CumSum(s) == [i \in 1 .. Len(s) |-> SumTo(s, i)]

\* [c*p for c,p in zip(xs, ys)]: zip stops at the shorter list
ZipMul(xs, ys) == [i \in 1 .. Min(Len(xs), Len(ys)) |-> xs[i] * ys[i]]

\* [0]*12
Zeros == [i \in 1 .. Horizon |-> 0]

\* ------------------------------------------------------------------------
\* Time axis (lines 52-53)
\* ------------------------------------------------------------------------
Year(i) == AnchorYear + ((i + AnchorQuarter - 1) \div 4)

Quarter(i) == ((i + AnchorQuarter - 1) % 4) + 1

\* pd.period_range("2025Q3", periods=12, freq="Q")
periods == [i \in 1 .. Horizon |-> [year |-> Year(i - 1), quarter |-> Quarter(i - 1)]]

\* str(Period): "YYYYQn"
PeriodStr(p) == ToString(p.year) \o "Q" \o ToString(p.quarter)

labels == [i \in 1 .. Horizon |-> PeriodStr(periods[i])]

\* x in lst
InList(lst, x) == \E i \in 1 .. Len(lst) : lst[i] = x

\* list.index(x): 0-based position of the first match (ValueError, modelled
\* by the callers, when x is not in the list)
ListIndex(lst, x) ==
    (CHOOSE i \in 1 .. Len(lst) :
        lst[i] = x /\ \A j \in 1 .. (i - 1) : lst[j] # x) - 1

\* ------------------------------------------------------------------------
\* UK schools (lines 55-78)
\* ------------------------------------------------------------------------
\* FastTarget compounded from the rounded previous target
RECURSIVE FastTargetChained(_)
FastTargetChained(i) ==
    IF i = 0 THEN start_uk
    ELSE PyRound(FastTargetChained(i - 1) * uk_growth_fast, FastDen)

\* line 64: int(round(start_uk * (uk_growth_fast ** i)))
FastTarget(i) == PyRound(start_uk * Pow(uk_growth_fast, i), Pow(FastDen, i))

\* line 67: int(round(prev_target * (1 + uk_growth_taper*2)))
TaperTarget(prev_target) ==
    PyRound(prev_target * (TaperDen + 2 * uk_growth_taper), TaperDen)

\* lines 60-68: half_targets after the loop has run for 1..n
RECURSIVE HalfTargets(_)
HalfTargets(n) ==
    IF n = 0 THEN << start_uk >>
    ELSE LET half_targets == HalfTargets(n - 1)
         IN  Append(half_targets,
                    IF n <= 4 THEN FastTarget(n)
                    ELSE TaperTarget(half_targets[Len(half_targets)]))

\* PartialStep taken from the target instead of the base
PartialStepFromTarget(base, target) == target + PyRound((target - base) * 4, 10)

\* line 74: base + int(round(delta*0.4))
PartialStep(base, target) == base + PyRound((target - base) * 4, 10)

\* lines 70-75: counts after the loop has run for h = 0..n-1
RECURSIVE Interpolate(_, _)
Interpolate(half_targets, n) ==
    IF n = 0 THEN << >>
    ELSE Interpolate(half_targets, n - 1)
           \o << PartialStep(half_targets[n], half_targets[n + 1]),
                 half_targets[n + 1] >>

\* line 76: counts[:12]
Slice12(counts) == SubSeq(counts, 1, Min(Horizon, Len(counts)))

build_uk_counts ==
    LET half_targets == HalfTargets(5)
    IN  Slice12(Interpolate(half_targets, Len(half_targets) - 1))

\* ------------------------------------------------------------------------
\* Prices (lines 81-83, 92)
\* ------------------------------------------------------------------------
\* ann_price_map with the 2026 blend weights swapped
ann_price_map_swapped_blend ==
    (2025 :> school_price_y1 * MoneyDen)
    @@ (2026 :> ((school_price_y1 * 3 + school_price_y2) * MoneyDen) \div 4)
    @@ (2027 :> school_price_y2 * MoneyDen)
    @@ (2028 :> school_price_y3 * MoneyDen)

\* annual school price by calendar year, in 1/MoneyDen pounds
ann_price_map ==
    (2025 :> school_price_y1 * MoneyDen)
    @@ (2026 :> ((school_price_y2 * 3 + school_price_y1) * MoneyDen) \div 4)
    @@ (2027 :> school_price_y2 * MoneyDen)
    @@ (2028 :> school_price_y3 * MoneyDen)

\* line 83: [ann_price_map[p.year]/4 for p in periods]
SchoolPriceQ == [i \in 1 .. Horizon |-> ann_price_map[periods[i].year] \div 4]

\* line 92: [ann_price_map[p.year]*mat_multiplier/4 for p in periods]
MatPriceQ ==
    [i \in 1 .. Horizon |->
        (ann_price_map[periods[i].year] * mat_multiplier) \div 4]

\* ------------------------------------------------------------------------
\* MATs (lines 87-93)
\* ------------------------------------------------------------------------
\* TrialSchedule without the catch-up cohort of index 0
TrialScheduleNoCatchUp == [i \in 1 .. Horizon |-> trials_q]

\* line 87: trials_q if idx>=1 else trials_q*(72/36)
TrialSchedule ==
    [i \in 1 .. Horizon |-> IF (i - 1) >= 1 THEN trials_q
                            ELSE (trials_q * 72) \div 36]

\* lines 88-90
MatConv(ts) ==
    [i \in 1 .. Horizon |->
        IF (i - 1) >= 2 THEN PyRound(At(ts, (i - 1) - 2) * conv_rate, ConvDen)
        ELSE 0]

\* ------------------------------------------------------------------------
\* US districts (lines 96-107)
\* ------------------------------------------------------------------------
\* BaseAdds without the launch override of lines 100-101
BaseAddsNoLaunchOverride(first) ==
    [i \in 1 .. Horizon |-> IF (i - 1) < first THEN 0 ELSE dist_add_q]

\* lines 97-101
BaseAdds(first) ==
    [i \in 1 .. Horizon |->
        IF (i - 1) < first THEN 0
        ELSE IF (i - 1) = first THEN 1
        ELSE dist_add_q]

\* line 106
DistPriceQ ==
    [i \in 1 .. Horizon |->
        IF periods[i].year >= 2027
        THEN ((IF periods[i].year = 2027 THEN dist_price_y1 ELSE dist_price_y2)
                 * MoneyDen) \div 4
        ELSE 0]

\* ------------------------------------------------------------------------
\* EAL (lines 110-118)
\* ------------------------------------------------------------------------
\* EalSeed when line 113 only runs while learners is not yet assigned
EalSeedStale == IF eal_rev = Unbound THEN eal_start_learners ELSE learners

\* line 113
EalSeed == eal_start_learners

\* EalLoop with lines 115 and 116 swapped: growth is applied before the store
RECURSIVE EalLoopGrowFirst(_, _, _)
EalLoopGrowFirst(i, lst, lrn) ==
    IF i >= Horizon THEN << lst, lrn >>
    ELSE LET grown == (lrn * eal_quarterly_multiplier) \div MultDen
         IN  EalLoopGrowFirst(i + 1, [lst EXCEPT ![i + 1] = grown], grown)

\* lines 114-116: the loop from index i on; yields << eal_learners, learners >>
RECURSIVE EalLoop(_, _, _)
EalLoop(i, lst, lrn) ==
    IF i >= Horizon THEN << lst, lrn >>
    ELSE EalLoop(i + 1,
                 [lst EXCEPT ![i + 1] = lrn],
                 (lrn * eal_quarterly_multiplier) \div MultDen)

\* line 118: n*(eal_price_annual/4)
EalRev(lst) == [i \in 1 .. Len(lst) |-> (lst[i] * eal_price_annual * MoneyDen) \div 4]

\* ------------------------------------------------------------------------
\* Totals frame (lines 121-127)
\* ------------------------------------------------------------------------
Segments == {"UK Schools", "MATs", "US Districts", "EAL"}

Columns == ("UK Schools" :> uk_rev) @@ ("MATs" :> mat_rev)
           @@ ("US Districts" :> dist_rev) @@ ("EAL" :> eal_rev)

\* pd.DataFrame(dict of lists, index=labels) requires every list to have the
\* length of the index
FrameOk == \A c \in Segments : Len(Columns[c]) = Len(labels)

\* forecast.sum(axis=1)
RowSum(cols) ==
    [i \in 1 .. Len(labels) |->
        cols["UK Schools"][i] + cols["MATs"][i]
          + cols["US Districts"][i] + cols["EAL"][i]]

Frame == Columns @@ ("Total" :> RowSum(Columns))

\* ------------------------------------------------------------------------
\* Widget values explored (subsets of the ranges of lines 21-45)
\* ------------------------------------------------------------------------
StartUkChoices == {10, 100}
FastChoices == {2, 3, 10}
TaperChoices == {0, 5, 20}
TrialsChoices == {1, 25}
ConvChoices == {10, 14}
MatMultChoices == {10}
DistAddChoices == {1, 15}
DistStartChoices == {"2027Q1", "2027Q2", "2027Q3"}
EalStartChoices == {"2028Q1", "2028Q2", "2028Q3"}
EalLearnersChoices == {100000, 1000000}
EalMultChoices == {4, 9}
SchoolPriceY1Choices == {1000, 5000}
SchoolPriceY2Choices == {10000}
SchoolPriceY3Choices == {15000}
DistPriceY1Choices == {100000}
DistPriceY2Choices == {150000}

\* what a finished run leaves behind
Results ==
    [ inputs |-> inputs, uk_counts |-> uk_counts, uk_rev |-> uk_rev,
      mat_cum |-> mat_cum, mat_rev |-> mat_rev,
      dist_cum |-> dist_cum, dist_rev |-> dist_rev,
      eal_learners |-> eal_learners, eal_rev |-> eal_rev,
      forecast |-> forecast, failure |-> failure ]

Init ==
    /\ start_uk \in StartUkChoices
    /\ uk_growth_fast \in FastChoices
    /\ uk_growth_taper \in TaperChoices
    /\ trials_q \in TrialsChoices
    /\ conv_rate \in ConvChoices
    /\ mat_multiplier \in MatMultChoices
    /\ dist_add_q \in DistAddChoices
    /\ dist_start_q \in DistStartChoices
    /\ eal_start_q \in EalStartChoices
    /\ eal_start_learners \in EalLearnersChoices
    /\ eal_quarterly_multiplier \in EalMultChoices
    /\ school_price_y1 \in SchoolPriceY1Choices
    /\ school_price_y2 \in SchoolPriceY2Choices
    /\ school_price_y3 \in SchoolPriceY3Choices
    /\ dist_price_y1 \in DistPriceY1Choices
    /\ dist_price_y2 \in DistPriceY2Choices
    /\ uk_counts = Unbound
    /\ school_price_q = Unbound
    /\ uk_rev = Unbound
    /\ trial_schedule = Unbound
    /\ mat_conv = Unbound
    /\ mat_cum = Unbound
    /\ mat_price_q = Unbound
    /\ mat_rev = Unbound
    /\ first_dist_idx = Unbound
    /\ base_adds = Unbound
    /\ dist_cum = Unbound
    /\ dist_price_q = Unbound
    /\ dist_rev = Unbound
    /\ first_eal_idx = Unbound
    /\ eal_learners = Unbound
    /\ learners = Unbound
    /\ eal_rev = Unbound
    /\ forecast = Unbound
    /\ pc = "build_uk"
    /\ failure = None
    /\ run = 1
    /\ prev = Unbound

\* lines 55-78
BuildUk ==
    /\ pc = "build_uk"
    /\ uk_counts' = build_uk_counts
    /\ pc' = "uk_rev"
    /\ UNCHANGED << inputs, revVars, matVars, distVars, ealVars,
                    forecast, failure, run, prev >>

\* lines 81-84
UkRev ==
    /\ pc = "uk_rev"
    /\ IF \A i \in 1 .. Horizon : periods[i].year \in DOMAIN ann_price_map
       THEN /\ school_price_q' = SchoolPriceQ
            /\ uk_rev' = ZipMul(uk_counts, school_price_q')
            /\ pc' = "mats"
            /\ UNCHANGED failure
       ELSE /\ pc' = "failed"
            /\ failure' = "KeyError"
            /\ UNCHANGED revVars
    /\ UNCHANGED << inputs, ukVars, matVars, distVars, ealVars,
                    forecast, run, prev >>

\* lines 87-93
Mats ==
    /\ pc = "mats"
    /\ trial_schedule' = TrialSchedule
    /\ mat_conv' = MatConv(trial_schedule')
    /\ mat_cum' = CumSum(mat_conv')
    /\ mat_price_q' = MatPriceQ
    /\ mat_rev' = ZipMul(mat_cum', mat_price_q')
    /\ pc' = "districts"
    /\ UNCHANGED << inputs, ukVars, revVars, distVars, ealVars,
                    forecast, failure, run, prev >>

\* lines 96-107
Districts ==
    /\ pc = "districts"
    /\ LET idx == ListIndex(labels, dist_start_q)
       IN  IF InList(labels, dist_start_q)
           THEN /\ first_dist_idx' = idx
                /\ base_adds' = BaseAdds(idx)
                /\ dist_cum' = CumSum(base_adds')
                /\ dist_price_q' = DistPriceQ
                /\ dist_rev' = ZipMul(dist_cum', dist_price_q')
                /\ pc' = "eal"
                /\ UNCHANGED failure
           ELSE /\ pc' = "failed"
                /\ failure' = "ValueError: dist_start_q is not in list"
                /\ UNCHANGED distVars
    /\ UNCHANGED << inputs, ukVars, revVars, matVars, ealVars,
                    forecast, run, prev >>

\* lines 110-118
Eal ==
    /\ pc = "eal"
    /\ LET idx == ListIndex(labels, eal_start_q)
       IN  IF InList(labels, eal_start_q)
           THEN /\ first_eal_idx' = idx
                /\ IF idx < 12
                   THEN LET out == EalLoop(idx, Zeros, EalSeed)
                        IN  /\ eal_learners' = out[1]
                            /\ learners' = out[2]
                   ELSE /\ eal_learners' = Zeros
                        /\ UNCHANGED learners
                /\ eal_rev' = EalRev(eal_learners')
                /\ pc' = "totals"
                /\ UNCHANGED failure
           ELSE /\ pc' = "failed"
                /\ failure' = "ValueError: eal_start_q is not in list"
                /\ UNCHANGED ealVars
    /\ UNCHANGED << inputs, ukVars, revVars, matVars, distVars,
                    forecast, run, prev >>

\* lines 121-127
Totals ==
    /\ pc = "totals"
    /\ IF FrameOk
       THEN /\ forecast' = Frame
            /\ pc' = "done"
            /\ UNCHANGED failure
       ELSE /\ pc' = "failed"
            /\ failure' = "ValueError: arrays must be of the same length"
            /\ UNCHANGED forecast
    /\ UNCHANGED << inputs, ukVars, revVars, matVars, distVars, ealVars,
                    run, prev >>

\* Streamlit executes the script again from the top with the same widget
\* values; names bound by the earlier execution keep their values until the
\* script assigns them again.
Rerun ==
    /\ pc \in {"done", "failed"}
    /\ run < MaxRuns
    /\ prev' = Results
    /\ run' = run + 1
    /\ pc' = "build_uk"
    /\ failure' = None
    /\ UNCHANGED << inputs, ukVars, revVars, matVars, distVars, ealVars,
                    forecast >>

Next ==
    \/ BuildUk
    \/ UkRev
    \/ Mats
    \/ Districts
    \/ Eal
    \/ Totals
    \/ Rerun

Spec == Init /\ [][Next]_vars

\* ------------------------------------------------------------------------
\* Properties
\* ------------------------------------------------------------------------
\* the run has stopped: either the frame was built or an exception ended it
Ended == pc \in {"done", "failed"}

\* calendar year of axis index i, written out: 2025Q3, 2025Q4, 2026Q1, ...
AxisYear(i) ==
    IF i <= 1 THEN 2025 ELSE IF i <= 5 THEN 2026 ELSE IF i <= 9 THEN 2027 ELSE 2028

\* r is an integer nearest to the rational num/den (den > 0)
Nearest(r, num, den) == /\ 2 * (r * den - num) <= den
                        /\ 2 * (num - r * den) <= den

NonDecreasing(s) == \A i \in 1 .. (Len(s) - 1) : s[i] <= s[i + 1]

\* C1: when the four segment series are handed to the result, each of them,
\* and the UK Schools count series behind the UK revenue, has exactly 12
\* entries, one per quarter of the axis.
C1_SeriesHaveTwelveEntries ==
    pc = "totals" =>
        /\ Len(uk_counts) = Horizon
        /\ \A c \in Segments : Len(Columns[c]) = Horizon

\* C2: a launch label that is not on the axis does not abort the run: the
\* EAL series is all zeros and the run goes on to the other results.
C2_OffAxisLaunchGivesZeroSeries ==
    (Ended /\ ~InList(labels, eal_start_q)) =>
        /\ failure # "ValueError: eal_start_q is not in list"
        /\ eal_learners = Zeros
        /\ eal_rev = Zeros

\* C3: every finished run has a Total series, and Total[i] is exactly the sum
\* of the four segment revenues of the same quarter i.
C3_TotalIsSumOfSegments ==
    (Ended /\ InList(labels, eal_start_q)) =>
        /\ pc = "done"
        /\ \A i \in 1 .. Horizon :
              forecast["Total"][i] = uk_rev[i] + mat_rev[i] + dist_rev[i] + eal_rev[i]

\* C4: districts are 0 before the launch index L, exactly 1 is added at L
\* whatever dist_add_q is, dist_add_q is added at every later quarter, so
\* count[L] = 1 and count[L+1] = 1 + dist_add_q, and the cumulative count
\* never decreases; 2027Q1 is index 6.
C4_DistrictsLaunchWithOne ==
    dist_rev # Unbound =>
        LET L == first_dist_idx
        IN  /\ L \in 0 .. (Horizon - 2)
            /\ At(labels, L) = dist_start_q
            /\ dist_start_q = "2027Q1" => L = 6
            /\ Len(dist_cum) = Horizon
            /\ \A i \in Idx : i < L => At(dist_cum, i) = 0
            /\ At(base_adds, L) = 1
            /\ \A i \in Idx : i > L => At(base_adds, i) = dist_add_q
            /\ At(dist_cum, L) = 1
            /\ At(dist_cum, L + 1) = 1 + dist_add_q
            /\ \A i \in Idx : i > L => At(dist_cum, i) = At(dist_cum, i - 1) + dist_add_q
            /\ NonDecreasing(dist_cum)

C4_Witness ==
    /\ dist_rev # Unbound
    /\ dist_start_q = "2027Q1"
    /\ dist_add_q = 15
    /\ At(dist_cum, 5) = 0
    /\ At(dist_cum, 6) = 1
    /\ At(dist_cum, 7) = 16

\* C5: EAL learners are 0 before the launch index L, eal_start_learners at L,
\* and learners[i-1] x eal_quarterly_multiplier at every later quarter, with
\* no cap; EAL revenue is learners[i] x eal_price_annual / 4.
C5_EalGeometricGrowth ==
    eal_rev # Unbound =>
        LET L == first_eal_idx
        IN  /\ L \in Idx
            /\ At(labels, L) = eal_start_q
            /\ Len(eal_learners) = Horizon
            /\ \A i \in Idx : i < L => At(eal_learners, i) = 0
            /\ At(eal_learners, L) = eal_start_learners
            /\ \A i \in Idx : i > L =>
                  At(eal_learners, i) * MultDen
                      = At(eal_learners, i - 1) * eal_quarterly_multiplier
            /\ \A i \in Idx :
                  At(eal_rev, i) * 4 = At(eal_learners, i) * eal_price_annual * MoneyDen

C5_Witness ==
    /\ eal_rev # Unbound
    /\ eal_start_q = "2028Q1"
    /\ eal_start_learners = 1000000
    /\ eal_quarterly_multiplier = 9
    /\ At(eal_learners, 9) = 0
    /\ At(eal_learners, 10) = 1000000
    /\ At(eal_learners, 11) = 2250000

\* trial intake of the claim: 2 x trials_q at index 0, trials_q afterwards
C6_Intake(j) == IF j = 0 THEN 2 * trials_q ELSE trials_q

\* C6: MAT conversions are 0 at index 0 and 1; at i in 2..11 they are
\* round(trial_intake[i-2] x conv_rate); the cumulative count is the running
\* sum of the conversions and never decreases.
C6_MatsLagTwoQuarters ==
    mat_rev # Unbound =>
        /\ Len(mat_conv) = Horizon /\ Len(mat_cum) = Horizon
        /\ At(mat_conv, 0) = 0
        /\ At(mat_conv, 1) = 0
        /\ \A i \in 2 .. (Horizon - 1) :
              Nearest(At(mat_conv, i), C6_Intake(i - 2) * conv_rate, ConvDen)
        /\ At(mat_cum, 0) = At(mat_conv, 0)
        /\ \A i \in 1 .. (Horizon - 1) :
              At(mat_cum, i) = At(mat_cum, i - 1) + At(mat_conv, i)
        /\ NonDecreasing(mat_cum)

C6_Witness ==
    /\ mat_rev # Unbound
    /\ trials_q = 25
    /\ conv_rate = 14
    /\ At(mat_conv, 2) = 35
    /\ At(mat_conv, 3) = 18
    /\ At(mat_cum, 11) = 197

\* C7: with uk_growth_fast >= 1 and uk_growth_taper >= 0 the UK Schools count
\* never decreases from one produced quarter to the next, half-year
\* boundaries included; it is flat through the hyper-growth quarters when
\* uk_growth_fast = 1.0 and flat after them when uk_growth_taper = 0.
C7_UkCountsNonDecreasing ==
    (uk_counts # Unbound /\ uk_growth_fast >= FastDen /\ uk_growth_taper >= 0) =>
        /\ NonDecreasing(uk_counts)
        /\ uk_growth_fast = FastDen =>
              \A i \in 0 .. 7 : At(uk_counts, i) = start_uk
        /\ uk_growth_taper = 0 =>
              \A i \in 8 .. (Len(uk_counts) - 1) : At(uk_counts, i) = At(uk_counts, 7)

C7_Witness ==
    /\ uk_counts # Unbound
    /\ start_uk = 10
    /\ uk_growth_fast = 3
    /\ uk_growth_taper = 5
    /\ At(uk_counts, 0) = 12
    /\ At(uk_counts, 1) = 15
    /\ At(uk_counts, 2) = 18

\* half-year target k as it shows in the quarterly counts
C8_H(k) == IF k = 0 THEN start_uk ELSE At(uk_counts, 2 * k - 1)

\* C8: h0 = start_uk; h[i] = round(start_uk x uk_growth_fast^i) for i in
\* 1..4, from start_uk and not from the rounded h[i-1];
\* h5 = round(h4 x (1 + 2 x uk_growth_taper)); quarter 2k is
\* h[k] + round(0.4 x (h[k+1] - h[k])) and quarter 2k+1 is h[k+1].  With
\* start_uk = 100 and uk_growth_fast = 5.0 the targets are 100, 500, 2500,
\* 12500, 62500, quarter 0 is 260 and quarter 1 is 500.
C8_UkHalfYearSchedule ==
    uk_counts # Unbound =>
        /\ Len(uk_counts) = 10
        /\ \A i \in 1 .. 4 :
              Nearest(C8_H(i), start_uk * Pow(uk_growth_fast, i), Pow(FastDen, i))
        /\ Nearest(C8_H(5), C8_H(4) * (TaperDen + 2 * uk_growth_taper), TaperDen)
        /\ \A k \in 0 .. 4 :
              Nearest(At(uk_counts, 2 * k) - C8_H(k),
                      4 * (C8_H(k + 1) - C8_H(k)), 10)
        /\ (start_uk = 100 /\ uk_growth_fast = 10) =>
              /\ << C8_H(0), C8_H(1), C8_H(2), C8_H(3), C8_H(4) >>
                    = << 100, 500, 2500, 12500, 62500 >>
              /\ At(uk_counts, 0) = 260
              /\ At(uk_counts, 1) = 500

C8_Witness ==
    /\ uk_counts # Unbound
    /\ start_uk = 100
    /\ uk_growth_fast = 10
    /\ uk_growth_taper = 20
    /\ At(uk_counts, 0) = 260
    /\ At(uk_counts, 7) = 62500
    /\ At(uk_counts, 9) = 87500

\* annual school price of the claim for year y, times 4 (in 1/MoneyDen pounds)
C9_Annual4(y) ==
    IF y = 2025 THEN 4 * school_price_y1 * MoneyDen
    ELSE IF y = 2026 THEN (school_price_y1 + 3 * school_price_y2) * MoneyDen
    ELSE IF y = 2027 THEN 4 * school_price_y2 * MoneyDen
    ELSE 4 * school_price_y3 * MoneyDen

\* C9: the annual school price is defined for the year of every quarter of
\* the axis: y1 for 2025, 0.25 y1 + 0.75 y2 for 2026, y2 for 2027, y3 for
\* 2028; the quarterly price is a quarter of it, and that one price series
\* gives UK revenue count[i] x price[i] and MAT revenue
\* cumulative[i] x mat_multiplier x price[i].
C9_SchoolPriceSeries ==
    mat_rev # Unbound =>
        /\ Len(school_price_q) = Horizon
        /\ \A i \in Idx :
              /\ periods[i + 1].year = AxisYear(i)
              /\ AxisYear(i) \in DOMAIN ann_price_map
              /\ 4 * ann_price_map[AxisYear(i)] = C9_Annual4(AxisYear(i))
              /\ 16 * At(school_price_q, i) = C9_Annual4(AxisYear(i))
              /\ At(mat_rev, i)
                    = At(mat_cum, i) * mat_multiplier * At(school_price_q, i)
        /\ Len(uk_rev) = Len(uk_counts)
        /\ \A i \in 0 .. (Len(uk_rev) - 1) :
              At(uk_rev, i) = At(uk_counts, i) * At(school_price_q, i)

C9_Witness ==
    /\ mat_rev # Unbound
    /\ school_price_y1 = 5000
    /\ At(school_price_q, 0) = 1250 * MoneyDen
    /\ At(school_price_q, 2) * 2 = 4375 * MoneyDen
    /\ At(school_price_q, 11) = 3750 * MoneyDen
    /\ At(uk_rev, 2) > 0
    /\ At(mat_rev, 2) > 0

\* C10: a second run with the same widget values ends with the same results
\* as the first in every series, whatever the first run left behind, and the
\* widget values themselves are as they were.
C10_RerunGivesSameResults ==
    (run >= 2 /\ Ended) => prev = Results

C10_Witness ==
    /\ run = 2
    /\ Ended
    /\ eal_rev # Unbound
    /\ eal_quarterly_multiplier = 9
    /\ learners # eal_start_learners
    /\ prev = Results

====
